---- MODULE Spec2Model ----
(***************************************************************************)
(* Model of src/server.js: the strike metrics calculation, the per-network *)
(* executeStrike pipeline and the governor loop of ApexOmniGovernor.        *)
(*                                                                          *)
(* Units.  The program computes on BigInt wei.  The model keeps the same    *)
(* integer formulas on coarser units so that every product fits the model   *)
(* checker's integers:                                                      *)
(*   amounts  : 1 unit = 10^11 wei   (1 milli-ether  = 10000 units)         *)
(*   gas fees : 1 unit = 5*10^5 wei  (1 centi-gwei   = 20 units)            *)
(*   200000 gas at 1 fee unit cost 1 amount unit.                           *)
(* Strings the program inspects character by character (the token hint and  *)
(* the token addresses it is compared with) are sequences of characters.    *)
(***************************************************************************)
EXTENDS Integers, Sequences, FiniteSets, TLC

\* ------------------------------------------------------------------------
\* Unit conversions (ethers.parseEther / ethers.parseUnits(.., "gwei"))
\* ------------------------------------------------------------------------
UnitsPerMilliEther == 10000
UnitsPerCentiGwei == 20
GasPerUnit == 200000

\* ethers.parseEther of a decimal given in thousandths of an ether
ParseMilliEther(k) == k * UnitsPerMilliEther
\* ethers.parseUnits(.., "gwei") of a decimal given in hundredths of a gwei
ParseCentiGwei(k) == k * UnitsPerCentiGwei

\* ------------------------------------------------------------------------
\* Global configuration
\* ------------------------------------------------------------------------
PROFIT_RECIPIENT == "0x458f94e935f829DCAD18Ae0A18CA5C3E223B71DE"
MIN_LOAN_THRESHOLD == ParseMilliEther(5000)

PepeEth == <<"0","x","6","9","8","2","5","0","8","1","4","5","4","5","4","C","e","3","2","5","d","D","b","E","4","7","a","2","5","d","4","e","c","3","d","2","3","1","1","9","3","3">>
PepeBase == <<"0","x","2","5","d","8","8","7","C","e","7","a","3","5","1","7","2","C","6","2","F","e","B","F","D","6","7","a","1","8","5","6","F","2","0","F","a","E","b","b","0","0">>
UsdtArb == <<"0","x","F","D","0","8","6","b","C","7","C","D","5","C","4","8","1","D","C","C","9","C","8","5","e","b","E","4","7","8","A","1","C","0","b","6","9","F","C","b","b","9">>
UsdtPoly == <<"0","x","c","2","1","3","2","D","0","5","D","3","1","c","9","1","4","a","8","7","C","6","6","1","1","C","1","0","7","4","8","A","E","b","0","4","B","5","8","e","8","F">>

\* moat in thousandths of an ether, priority in hundredths of a gwei
NETWORKS ==
  [ ETHEREUM |-> [ chainId |-> 1, moat |-> 15, priority |-> 50000,
                   usdc |-> "0xA0b86991c6218b36c1d19D4a2e9Eb0cE3606eB48",
                   discoveryTarget |-> PepeEth,
                   router |-> "0x7a250d5630B4cF539739dF2C5dAcb4c659F2488D" ],
    BASE     |-> [ chainId |-> 8453, moat |-> 8, priority |-> 180,
                   usdc |-> "0x833589fCD6eDb6E08f4c7C32D4f71b54bdA02913",
                   discoveryTarget |-> PepeBase,
                   router |-> "0x4752ba5DBc23f44D87826276BF6Fd6b1C372aD24" ],
    ARBITRUM |-> [ chainId |-> 42161, moat |-> 5, priority |-> 120,
                   usdc |-> "0xaf88d065e77c8cC2239327C5EDb3A432268e5831",
                   discoveryTarget |-> UsdtArb,
                   router |-> "0x1b02dA8Cb0d097eB8D57A175b88c7D8b47997506" ],
    POLYGON  |-> [ chainId |-> 137, moat |-> 3, priority |-> 25000,
                   usdc |-> "0x2791Bca1f2de4661ED88A30C99A7a9449Aa84174",
                   discoveryTarget |-> UsdtPoly,
                   router |-> "0xa5E0829CaCEd8fFDD4De3c43696c57F7D7A678ff" ] ]

\* Object.keys(NETWORKS): insertion order
NetOrder == <<"ETHEREUM", "BASE", "ARBITRUM", "POLYGON">>
NetNames == {NetOrder[i] : i \in 1..Len(NetOrder)}

\* ------------------------------------------------------------------------
\* calculateStrikeMetrics: the arithmetic after both reads have returned
\* ------------------------------------------------------------------------
\* feeData.gasPrice is null when the node reports none
NullGas == -1
NoMetrics == [none |-> TRUE]

\* feeData.gasPrice || parseUnits("0.01", "gwei"): null and 0n are falsy
GasPriceOrDefaultNullOnly(gasPrice) ==
  IF gasPrice = NullGas THEN ParseCentiGwei(1) ELSE gasPrice

GasPriceOrDefault(gasPrice) ==
  IF gasPrice = NullGas \/ gasPrice = 0 THEN ParseCentiGwei(1) ELSE gasPrice

PFee(config) == ParseCentiGwei(config.priority)

ExecFee(gasPrice, config) ==
  ((GasPriceOrDefault(gasPrice) * 130) \div 100) + PFee(config)

GasLimit == 1800000

Overhead(gasPrice, config) ==
  ((GasLimit \div GasPerUnit) * ExecFee(gasPrice, config)) + ParseMilliEther(config.moat)

Reserve == ParseMilliEther(5)

PremiumKeepsMoat(balance, gasPrice, config) ==
  balance - (Overhead(gasPrice, config) - ParseMilliEther(config.moat))

Premium(balance, gasPrice, config) == balance - Overhead(gasPrice, config)

TradeAmountThousand(premium) == (premium * 1000) \div 9

TradeAmountRounded(premium) == ((premium * 10000) + 4) \div 9

TradeAmount(premium) == (premium * 10000) \div 9

StrikeMetricsNoReserve(balance, gasPrice, config) ==
  IF balance < Overhead(gasPrice, config)
  THEN NoMetrics
  ELSE LET premium == Premium(balance, gasPrice, config)
           tradeAmount == TradeAmount(premium)
       IN IF tradeAmount < MIN_LOAN_THRESHOLD
          THEN NoMetrics
          ELSE [ tradeAmount |-> tradeAmount, premium |-> premium,
                 fee |-> ExecFee(gasPrice, config), pFee |-> PFee(config) ]

StrikeMetricsInverted(balance, gasPrice, config) ==
  IF balance < Overhead(gasPrice, config)
     \/ balance > Overhead(gasPrice, config) + Reserve
  THEN NoMetrics
  ELSE LET premium == Premium(balance, gasPrice, config)
           tradeAmount == TradeAmount(premium)
       IN IF tradeAmount < MIN_LOAN_THRESHOLD
          THEN NoMetrics
          ELSE [ tradeAmount |-> tradeAmount, premium |-> premium,
                 fee |-> ExecFee(gasPrice, config), pFee |-> PFee(config) ]

StrikeMetrics(balance, gasPrice, config) ==
  IF balance < Overhead(gasPrice, config) + Reserve
  THEN NoMetrics
  ELSE LET premium == Premium(balance, gasPrice, config)
           tradeAmount == TradeAmount(premium)
       IN IF tradeAmount < MIN_LOAN_THRESHOLD
          THEN NoMetrics
          ELSE [ tradeAmount |-> tradeAmount, premium |-> premium,
                 fee |-> ExecFee(gasPrice, config), pFee |-> PFee(config) ]

\* ------------------------------------------------------------------------
\* executeStrike: chain-aware discovery targeting
\* ------------------------------------------------------------------------
DISCOVERY == <<"D","I","S","C","O","V","E","R","Y">>

\* String.prototype.startsWith
StartsWith(s, p) == Len(s) >= Len(p) /\ SubSeq(s, 1, Len(p)) = p

ResolveTarget(tokenIdentifier, config) ==
  IF tokenIdentifier = DISCOVERY
  THEN config.discoveryTarget
  ELSE IF StartsWith(tokenIdentifier, <<"0","x">>)
       THEN tokenIdentifier
       ELSE config.discoveryTarget


\* ------------------------------------------------------------------------
\* Bounds of the explored inputs
\* ------------------------------------------------------------------------
MaxNonce == 1
MaxBelow == 3
MaxAbove == 20
BigOffset == 150000

\* a rejected promise of a gateway call
Fail == -2

\* the balance at which the headroom check starts to pass
Headroom(gasPrice, config) == Overhead(gasPrice, config) + Reserve

\* fee data the node may report: none, zero, below / at / above 0.01 gwei
GasReplies == {NullGas, 0, 1, ParseCentiGwei(1), ParseCentiGwei(2)}

\* balances the node may report for a network
BalanceReplies(n) ==
  {0} \cup {Headroom(NullGas, NETWORKS[n]) + d : d \in {0 - 1, 0, 7, 300}}

NonceReplies == 0..MaxNonce

\* ------------------------------------------------------------------------
\* State
\* ------------------------------------------------------------------------
VARIABLES
  privateKey,        \* process.env.PRIVATE_KEY: "missing", "invalid", "valid"
  executor,          \* process.env.EXECUTOR_ADDRESS is set
  telegramAvailable, \* the optional telegram modules were loaded
  providers,         \* keys of governor.providers
  wallets,           \* keys of governor.wallets
  proc,              \* "running" or "exited"
  exitCode,          \* exit status once exited, NoExit before
  pc,                \* position of the main control flow
  idx,               \* index of the for loop of run() into NetOrder
  targetToken,       \* executeStrike local
  m,                 \* executeStrike local: result of calculateStrikeMetrics
  nonce,             \* pending nonce read for the transaction overrides
  txData,            \* executeStrike local: the populated transaction
  balanceRead,       \* history: balance returned to calculateStrikeMetrics
  gasRead,           \* history: gasPrice returned to calculateStrikeMetrics
  calls,             \* history: gateway calls of the current attempt
  simTx,             \* history: transaction handed to provider.call
  sentTx,            \* history: transaction handed to wallet.sendTransaction
  attempts,          \* history: attempts started per network in this pass
  outcome,           \* history: how each network's attempt ended in this pass
  everInvoked,       \* history: executeStrike was called at least once
  qPc, qIn, qOut     \* harness applying the pure functions to drawn inputs

vars == << privateKey, executor, telegramAvailable, providers, wallets, proc,
           exitCode, pc, idx, targetToken, m, nonce, txData, balanceRead,
           gasRead, calls, simTx, sentTx, attempts, outcome, everInvoked,
           qPc, qIn, qOut >>

envVars == << privateKey, executor, telegramAvailable >>
govVars == << providers, wallets >>
localVars == << targetToken, m, nonce, txData, balanceRead, gasRead >>
histVars == << calls, simTx, sentTx, attempts, outcome >>
qVars == << qPc, qIn, qOut >>

NoExit == -1
NoTx == [none |-> TRUE]
NoNonce == -1
NoRead == -3
NoTarget == << >>

CurNet == NetOrder[idx]

FreshLocals ==
  /\ targetToken = NoTarget /\ m = NoMetrics /\ nonce = NoNonce
  /\ txData = NoTx /\ balanceRead = NoRead /\ gasRead = NoRead

FreshPass ==
  /\ attempts = [n \in NetNames |-> 0]
  /\ outcome = [n \in NetNames |-> "none"]

QOff == qPc = "off" /\ qIn = << >> /\ qOut = << >>

\* the process before line 232 runs, in any environment
Init ==
  /\ privateKey \in {"missing", "invalid", "valid"}
  /\ executor \in BOOLEAN
  /\ telegramAvailable \in BOOLEAN
  /\ providers = {} /\ wallets = {}
  /\ proc = "running" /\ exitCode = NoExit
  /\ pc = "ignition" /\ idx = 1
  /\ FreshLocals /\ FreshPass
  /\ calls = << >> /\ simTx = NoTx /\ sentTx = NoTx
  /\ everInvoked = FALSE
  /\ QOff


\* ------------------------------------------------------------------------
\* Gateway call history of the current attempt
\* ------------------------------------------------------------------------
Issue(log, op) == Append(log, [op |-> op, st |-> "pending"])

\* every pending call of the log is settled with st
Settle(log, st) ==
  [i \in 1..Len(log) |->
     IF log[i].st = "pending" THEN [log[i] EXCEPT !.st = st] ELSE log[i]]

Ended(n, how) == outcome' = [outcome EXCEPT ![n] = how]

\* ------------------------------------------------------------------------
\* Ignition: runHealthServer(); new ApexOmniGovernor()
\* ------------------------------------------------------------------------
\* wallets built by the constructor loop over the providers that came up
WalletsForEveryNetwork(up, key) == IF key = "valid" THEN NetNames ELSE {}

WalletsFor(up, key) == IF key = "valid" THEN up ELSE {}

Construct ==
  /\ pc = "ignition" /\ proc = "running"
  /\ IF ~telegramAvailable
     THEN \* new StringSession(..) on an undefined binding throws: uncaught
          /\ proc' = "exited" /\ exitCode' = 1 /\ pc' = "dead"
          /\ UNCHANGED govVars
     ELSE \E up \in SUBSET NetNames :
            /\ providers' = up
            /\ wallets' = WalletsFor(up, privateKey)
            /\ pc' = "run"
            /\ UNCHANGED << proc, exitCode >>
  /\ UNCHANGED << envVars, idx, localVars, histVars, everInvoked, qVars >>

\* ------------------------------------------------------------------------
\* run(): the startup check
\* ------------------------------------------------------------------------
StartupOkKeyOnly(exec, key) == key # "missing"

StartupOk(exec, key) == exec /\ key # "missing"

RunEntry ==
  /\ pc = "run" /\ proc = "running"
  /\ pc' = IF StartupOk(executor, privateKey) THEN "loop" ELSE "returned"
  /\ idx' = 1
  /\ UNCHANGED << envVars, govVars, proc, exitCode, localVars, histVars,
                  everInvoked, qVars >>

\* ------------------------------------------------------------------------
\* executeStrike(net, "DISCOVERY") up to its first await
\* ------------------------------------------------------------------------
HasWalletAlways(n) == TRUE

HasWallet(n) == n \in wallets

CallStrike ==
  /\ pc = "loop" /\ proc = "running"
  /\ everInvoked' = TRUE
  /\ simTx' = NoTx /\ sentTx' = NoTx
  /\ m' = NoMetrics /\ nonce' = NoNonce /\ txData' = NoTx
  /\ balanceRead' = NoRead /\ gasRead' = NoRead
  /\ IF ~HasWallet(CurNet)
     THEN /\ pc' = "pause"
          /\ targetToken' = NoTarget
          /\ calls' = << >>
          /\ Ended(CurNet, "no-wallet")
          /\ UNCHANGED attempts
     ELSE /\ targetToken' = ResolveTarget(DISCOVERY, NETWORKS[CurNet])
          /\ calls' = Issue(Issue(<< >>, "getBalance"), "getFeeData")
          /\ attempts' = [attempts EXCEPT ![CurNet] = @ + 1]
          /\ pc' = "awaitMetrics"
          /\ UNCHANGED outcome
  /\ UNCHANGED << envVars, govVars, proc, exitCode, idx, qVars >>


\* ------------------------------------------------------------------------
\* calculateStrikeMetrics: Promise.all([getBalance, getFeeData]) settles
\* ------------------------------------------------------------------------
\* the value calculateStrikeMetrics resolves to; a rejected read is caught
MetricsResult(balance, gasPrice, config) ==
  IF balance = Fail \/ gasPrice = Fail
  THEN NoMetrics
  ELSE StrikeMetrics(balance, gasPrice, config)

ViableAlways(metrics) == TRUE

\* if (!m) return: the attempt goes on only with metrics
Viable(metrics) == metrics # NoMetrics

MetricsReply ==
  /\ pc = "awaitMetrics" /\ proc = "running"
  /\ \E balance \in BalanceReplies(CurNet) \cup {Fail},
        gasPrice \in GasReplies \cup {Fail} :
       /\ balanceRead' = balance /\ gasRead' = gasPrice
       /\ m' = MetricsResult(balance, gasPrice, NETWORKS[CurNet])
       /\ LET log == [i \in 1..Len(calls) |->
                        [calls[i] EXCEPT !.st =
                           IF (calls[i].op = "getBalance" /\ balance = Fail)
                              \/ (calls[i].op = "getFeeData" /\ gasPrice = Fail)
                           THEN "fail" ELSE "ok"]]
          IN IF ~Viable(m')
             THEN /\ calls' = log
                  /\ pc' = "pause"
                  /\ Ended(CurNet, IF balance = Fail \/ gasPrice = Fail
                                   THEN "read-failed" ELSE "skipped")
             ELSE \* overrides are evaluated first: await wallet.getNonce
                  /\ calls' = Issue(log, "getNonce")
                  /\ pc' = "awaitNonce"
                  /\ UNCHANGED outcome
  /\ UNCHANGED << envVars, govVars, proc, exitCode, idx, targetToken, nonce,
                  txData, simTx, sentTx, attempts, everInvoked, qVars >>

\* ------------------------------------------------------------------------
\* executeStrike: the try block
\* ------------------------------------------------------------------------
\* where control goes when an awaited call of the try block rejects
CaughtUnlessBroadcast(op) == IF op = "sendTransaction" THEN "dead" ELSE "pause"

Caught(op) == "pause"

\* how the attempt is said to have ended when op rejects
FailureOf(op) ==
  CASE op = "call" -> "simulation-failed"
    [] op = "sendTransaction" -> "broadcast-failed"
    [] OTHER -> "build-failed"

Rejected(op) ==
  /\ calls' = Settle(calls, "fail")
  /\ pc' = Caught(op)
  /\ IF pc' = "pause"
     THEN /\ Ended(CurNet, FailureOf(op))
          /\ UNCHANGED << proc, exitCode >>
     ELSE \* the rejection leaves run(): governor.run().catch -> process.exit(1)
          /\ proc' = "exited" /\ exitCode' = 1
          /\ UNCHANGED outcome

NonceReply ==
  /\ pc = "awaitNonce" /\ proc = "running"
  /\ \/ \E k \in NonceReplies :
          /\ nonce' = k
          /\ calls' = Issue(Settle(calls, "ok"), "populateTransaction")
          /\ pc' = "awaitPopulate"
          /\ UNCHANGED << outcome, proc, exitCode >>
     \/ /\ Rejected("getNonce")
        /\ UNCHANGED nonce
  /\ UNCHANGED << envVars, govVars, idx, targetToken, m, txData, balanceRead,
                  gasRead, simTx, sentTx, attempts, everInvoked, qVars >>

BuildTxSwapped(config, target, metrics, pending) ==
  [ to |-> "EXECUTOR",
    router |-> config.router,
    tokenA |-> target,
    tokenB |-> config.usdc,
    amountIn |-> metrics.premium,
    recipient |-> PROFIT_RECIPIENT,
    value |-> metrics.tradeAmount,
    gasLimit |-> GasLimit,
    maxFeePerGas |-> metrics.fee,
    maxPriorityFeePerGas |-> metrics.pFee,
    nonce |-> pending ]

\* the request populateTransaction resolves to
BuildTx(config, target, metrics, pending) ==
  [ to |-> "EXECUTOR",
    router |-> config.router,
    tokenA |-> target,
    tokenB |-> config.usdc,
    amountIn |-> metrics.tradeAmount,
    recipient |-> PROFIT_RECIPIENT,
    value |-> metrics.premium,
    gasLimit |-> GasLimit,
    maxFeePerGas |-> metrics.fee,
    maxPriorityFeePerGas |-> metrics.pFee,
    nonce |-> pending ]

PopulateReply ==
  /\ pc = "awaitPopulate" /\ proc = "running"
  /\ \/ /\ txData' = BuildTx(NETWORKS[CurNet], targetToken, m, nonce)
        /\ simTx' = txData'
        /\ calls' = Issue(Settle(calls, "ok"), "call")
        /\ pc' = "awaitCall"
        /\ UNCHANGED << outcome, proc, exitCode >>
     \/ /\ Rejected("populateTransaction")
        /\ UNCHANGED << txData, simTx >>
  /\ UNCHANGED << envVars, govVars, idx, targetToken, m, nonce, balanceRead,
                  gasRead, sentTx, attempts, everInvoked, qVars >>


\* the simulation gate: await provider.call(txData) throws on a revert, so
\* the statement after it runs only when the call resolved
BroadcastRequeried(tx, config, target, metrics, pending) ==
  [tx EXCEPT !.nonce = pending + 1]

\* the transaction handed to wallet.sendTransaction
Broadcast(tx, config, target, metrics, pending) == tx

GateOpenAlways(simulated) == TRUE

GateOpen(simulated) == simulated

CallReply ==
  /\ pc = "awaitCall" /\ proc = "running"
  /\ \E simulated \in BOOLEAN :
       IF GateOpen(simulated)
       THEN /\ calls' = Issue(Settle(calls, IF simulated THEN "ok" ELSE "fail"),
                              "sendTransaction")
            /\ sentTx' = Broadcast(txData, NETWORKS[CurNet], targetToken, m, nonce)
            /\ pc' = "awaitSend"
            /\ UNCHANGED << outcome, proc, exitCode >>
       ELSE /\ Rejected("call")
            /\ UNCHANGED sentTx
  /\ UNCHANGED << envVars, govVars, idx, localVars, simTx, attempts,
                  everInvoked, qVars >>

SendReply ==
  /\ pc = "awaitSend" /\ proc = "running"
  /\ \/ /\ calls' = Settle(calls, "ok")
        /\ pc' = "pause"
        /\ Ended(CurNet, "broadcast-succeeded")
        /\ UNCHANGED << proc, exitCode >>
     \/ Rejected("sendTransaction")
  /\ UNCHANGED << envVars, govVars, idx, localVars, simTx, sentTx, attempts,
                  everInvoked, qVars >>

\* ------------------------------------------------------------------------
\* run(): pacing timers of the governor loop
\* ------------------------------------------------------------------------
PauseDoneRetryOnFailure ==
  /\ pc = "pause" /\ proc = "running"
  /\ IF outcome[CurNet] \in {"simulation-failed", "broadcast-failed"}
     THEN idx' = idx /\ pc' = "loop"
     ELSE IF idx < Len(NetOrder)
          THEN idx' = idx + 1 /\ pc' = "loop"
          ELSE idx' = idx /\ pc' = "passPause"
  /\ targetToken' = NoTarget /\ m' = NoMetrics /\ nonce' = NoNonce
  /\ txData' = NoTx /\ balanceRead' = NoRead /\ gasRead' = NoRead
  /\ calls' = << >> /\ simTx' = NoTx /\ sentTx' = NoTx
  /\ UNCHANGED << envVars, govVars, proc, exitCode, attempts, outcome,
                  everInvoked, qVars >>

PauseDoneBreakOnFailure ==
  /\ pc = "pause" /\ proc = "running"
  /\ IF idx < Len(NetOrder)
        /\ outcome[CurNet] \notin {"read-failed", "build-failed",
                                   "simulation-failed", "broadcast-failed"}
     THEN idx' = idx + 1 /\ pc' = "loop"
     ELSE idx' = idx /\ pc' = "passPause"
  /\ targetToken' = NoTarget /\ m' = NoMetrics /\ nonce' = NoNonce
  /\ txData' = NoTx /\ balanceRead' = NoRead /\ gasRead' = NoRead
  /\ calls' = << >> /\ simTx' = NoTx /\ sentTx' = NoTx
  /\ UNCHANGED << envVars, govVars, proc, exitCode, attempts, outcome,
                  everInvoked, qVars >>

\* the 1200 ms timer fires; the for loop moves on
PauseDone ==
  /\ pc = "pause" /\ proc = "running"
  /\ IF idx < Len(NetOrder)
     THEN idx' = idx + 1 /\ pc' = "loop"
     ELSE idx' = idx /\ pc' = "passPause"
  /\ targetToken' = NoTarget /\ m' = NoMetrics /\ nonce' = NoNonce
  /\ txData' = NoTx /\ balanceRead' = NoRead /\ gasRead' = NoRead
  /\ calls' = << >> /\ simTx' = NoTx /\ sentTx' = NoTx
  /\ UNCHANGED << envVars, govVars, proc, exitCode, attempts, outcome,
                  everInvoked, qVars >>

PassPauseDoneOnce ==
  /\ pc = "passPause" /\ proc = "running"
  /\ idx' = 1 /\ pc' = "returned"
  /\ attempts' = [n \in NetNames |-> 0]
  /\ outcome' = [n \in NetNames |-> "none"]
  /\ UNCHANGED << envVars, govVars, proc, exitCode, localVars, calls, simTx,
                  sentTx, everInvoked, qVars >>

\* the 3000 ms timer fires; while (true) starts the next pass
PassPauseDone ==
  /\ pc = "passPause" /\ proc = "running"
  /\ idx' = 1 /\ pc' = "loop"
  /\ attempts' = [n \in NetNames |-> 0]
  /\ outcome' = [n \in NetNames |-> "none"]
  /\ UNCHANGED << envVars, govVars, proc, exitCode, localVars, calls, simTx,
                  sentTx, everInvoked, qVars >>

Next ==
  \/ Construct
  \/ RunEntry
  \/ CallStrike
  \/ MetricsReply
  \/ NonceReply
  \/ PopulateReply
  \/ CallReply
  \/ SendReply
  \/ PauseDone
  \/ PassPauseDone

Spec == Init /\ [][Next]_vars


\* ------------------------------------------------------------------------
\* The pure parts applied to drawn inputs: the targeting expression of
\* executeStrike on a token hint, and the arithmetic of
\* calculateStrikeMetrics on two balances under one fee and one config
\* ------------------------------------------------------------------------
HexDigits ==
  {"0","1","2","3","4","5","6","7","8","9",
   "a","b","c","d","e","f","A","B","C","D","E","F"}

UsdcEth == <<"0","x","A","0","b","8","6","9","9","1","c","6","2","1","8","b","3","6","c","1","d","1","9","D","4","a","2","e","9","E","b","0","c","E","3","6","0","6","e","B","4","8">>

Hints ==
  { DISCOVERY, UsdcEth, << >>, <<"P","E","P","E">>, <<"0","x">>,
    <<"0","x","Z","Z">>, <<"d","i","s","c","o","v","e","r","y">> }

CalcOffsets == ((0 - MaxBelow)..MaxAbove) \cup {BigOffset}

CalcBalances(gasPrice, config) ==
  {0} \cup {Headroom(gasPrice, config) + d : d \in CalcOffsets}

GovOff ==
  /\ privateKey = "valid" /\ executor = TRUE /\ telegramAvailable = TRUE
  /\ providers = {} /\ wallets = {}
  /\ proc = "running" /\ exitCode = NoExit
  /\ pc = "off" /\ idx = 1
  /\ FreshLocals /\ FreshPass
  /\ calls = << >> /\ simTx = NoTx /\ sentTx = NoTx
  /\ everInvoked = FALSE

CalcInit ==
  /\ GovOff
  /\ qPc = "in"
  /\ qOut = << >>
  /\ \E n \in NetNames, g \in GasReplies, h \in Hints :
       \E a \in CalcBalances(g, NETWORKS[n]), b \in CalcBalances(g, NETWORKS[n]) :
         qIn = [ net |-> n, gasPrice |-> g, balA |-> a, balB |-> b, hint |-> h ]

\* executeStrike line 170 on the hint
QResolve ==
  /\ qPc = "in"
  /\ qOut' = [ target |-> ResolveTarget(qIn.hint, NETWORKS[qIn.net]) ]
  /\ qPc' = "resolved"
  /\ UNCHANGED << envVars, govVars, proc, exitCode, pc, idx, localVars,
                  histVars, everInvoked, qIn >>

\* calculateStrikeMetrics on each of the two balances
QCalculate ==
  /\ qPc = "resolved"
  /\ qOut' = [ target |-> qOut.target,
               resA |-> StrikeMetrics(qIn.balA, qIn.gasPrice, NETWORKS[qIn.net]),
               resB |-> StrikeMetrics(qIn.balB, qIn.gasPrice, NETWORKS[qIn.net]) ]
  /\ qPc' = "done"
  /\ UNCHANGED << envVars, govVars, proc, exitCode, pc, idx, localVars,
                  histVars, everInvoked, qIn >>

CalcNext == QResolve \/ QCalculate

CalcSpec == CalcInit /\ [][CalcNext]_vars


\* ========================================================================
\* Properties
\* ========================================================================
OpsIssued == {calls[i].op : i \in 1..Len(calls)}

\* C1: a broadcast (wallet.sendTransaction) is issued only after the
\* provider.call of the same attempt resolved; when the simulation, the
\* transaction build or the nonce query rejects, the attempt issues no
\* broadcast.
BroadcastOnlyAfterSimulation ==
  /\ \A i \in 1..Len(calls) :
       /\ calls[i].op = "sendTransaction" =>
            \E j \in 1..(i - 1) : calls[j].op = "call" /\ calls[j].st = "ok"
       /\ (calls[i].st = "fail" /\ calls[i].op # "sendTransaction") =>
            "sendTransaction" \notin OpsIssued
  /\ (sentTx # NoTx) <=> ("sendTransaction" \in OpsIssued)

BroadcastAfterSimulationReached ==
  /\ pc = "pause"
  /\ outcome[CurNet] = "broadcast-succeeded"
  /\ sentTx # NoTx
  /\ \E j \in 1..Len(calls) : calls[j].op = "call" /\ calls[j].st = "ok"


\* the overhead and the reserve as the specification words them
SpecOverhead(gasPrice, config) ==
  ((GasLimit \div GasPerUnit) * ExecFee(gasPrice, config))
    + ParseMilliEther(config.moat)

SpecReserve == ParseMilliEther(5)

\* C2: for every balance below overhead + reserve, with overhead =
\* gasLimit x maxFee + moat and reserve = 0.005, calculateStrikeMetrics
\* returns null.
NullBelowHeadroom ==
  (qPc = "done") =>
    LET config == NETWORKS[qIn.net]
        limit == SpecOverhead(qIn.gasPrice, config) + SpecReserve
    IN /\ (qIn.balA < limit) => (qOut.resA = NoMetrics)
       /\ (qIn.balB < limit) => (qOut.resB = NoMetrics)

\* a balance that covers the overhead but not the reserve was rejected
NullBelowHeadroomReached ==
  /\ qPc = "done"
  /\ qIn.balA >= SpecOverhead(qIn.gasPrice, NETWORKS[qIn.net])
  /\ qIn.balA < SpecOverhead(qIn.gasPrice, NETWORKS[qIn.net]) + SpecReserve
  /\ qOut.resA = NoMetrics

\* C3 as stated: every returned tuple satisfies tradeAmount x 9 =
\* premium x 10000 exactly.
ExactLeverageIdentity ==
  (qPc = "done" /\ qOut.resA # NoMetrics) =>
    (qOut.resA.tradeAmount * 9 = qOut.resA.premium * 10000)

\* C3 (amended): every returned tuple has tradeAmount = the integer quotient
\* of premium x 10000 by 9: premium x 10000 - tradeAmount x 9 lies in 0..8,
\* and it is 0 exactly when premium is a multiple of 9.
FlooredLeverageIdentity ==
  (qPc = "done" /\ qOut.resA # NoMetrics) =>
    LET rest == (qOut.resA.premium * 10000) - (qOut.resA.tradeAmount * 9)
    IN /\ 0 <= rest /\ rest <= 8
       /\ (rest = 0) <=> (qOut.resA.premium % 9 = 0)

FlooredLeverageReached ==
  /\ qPc = "done"
  /\ qOut.resA # NoMetrics
  /\ qOut.resA.premium % 9 # 0
  /\ qOut.resA.tradeAmount * 9 < qOut.resA.premium * 10000

\* ethers.isAddress, without the checksum: "0x" and forty hex digits
IsAddress(s) ==
  /\ Len(s) = 42
  /\ StartsWith(s, <<"0","x">>)
  /\ \A i \in 3..42 : s[i] \in HexDigits

\* C4: for every hint that is neither the sentinel nor a valid address, the
\* resolved target token is the network's discoveryTarget.
MalformedHintFallsBack ==
  (qPc # "in" /\ qIn.hint # DISCOVERY /\ ~IsAddress(qIn.hint)) =>
    (qOut.target = NETWORKS[qIn.net].discoveryTarget)


LoopPcs ==
  {"loop", "awaitMetrics", "awaitNonce", "awaitPopulate", "awaitCall",
   "awaitSend", "pause", "passPause"}

Failures == {"read-failed", "build-failed", "simulation-failed", "broadcast-failed"}

St(op) ==
  IF \E i \in 1..Len(calls) : calls[i].op = op
  THEN calls[CHOOSE i \in 1..Len(calls) : calls[i].op = op].st
  ELSE "absent"

\* how an attempt ends as a function of the replies of its own gateway
OwnOutcome(n) ==
  IF n \notin wallets THEN "no-wallet"
  ELSE IF St("getBalance") = "fail" \/ St("getFeeData") = "fail" THEN "read-failed"
  ELSE IF StrikeMetrics(balanceRead, gasRead, NETWORKS[n]) = NoMetrics THEN "skipped"
  ELSE IF St("getNonce") = "fail" \/ St("populateTransaction") = "fail" THEN "build-failed"
  ELSE IF St("call") = "fail" THEN "simulation-failed"
  ELSE IF St("sendTransaction") = "fail" THEN "broadcast-failed"
  ELSE "broadcast-succeeded"

\* C5: whatever the gateways of the other networks did in the pass (raising
\* on every call included), each network with a wallet is attempted exactly
\* once in the pass, and its attempt ends as its own gateway's replies
\* determine.
NetworkIsolation ==
  /\ \A n \in NetNames : attempts[n] <= 1
  /\ \A i \in 1..Len(NetOrder) :
       (pc \in LoopPcs /\ (i < idx \/ pc = "passPause" \/ (i = idx /\ pc = "pause"))) =>
         /\ attempts[NetOrder[i]] = (IF NetOrder[i] \in wallets THEN 1 ELSE 0)
         /\ outcome[NetOrder[i]] # "none"
  /\ (pc = "pause") => (outcome[CurNet] = OwnOutcome(CurNet))

\* a pass in which the first gateway raised and the other three broadcast
NetworkIsolationReached ==
  /\ pc = "passPause"
  /\ outcome["ETHEREUM"] = "read-failed"
  /\ \A n \in NetNames \ {"ETHEREUM"} :
       attempts[n] = 1 /\ outcome[n] = "broadcast-succeeded"

StartupMissing == privateKey = "missing" \/ ~executor

\* C6: when PRIVATE_KEY or EXECUTOR_ADDRESS is missing, executeStrike is
\* never called and no gateway call (balance, fee, nonce, simulation,
\* broadcast) is ever issued.
NoAttemptWithoutCredentials ==
  StartupMissing =>
    /\ ~everInvoked
    /\ pc \notin LoopPcs
    /\ calls = << >> /\ simTx = NoTx /\ sentTx = NoTx
    /\ \A n \in NetNames : attempts[n] = 0 /\ outcome[n] = "none"

NoAttemptWithoutCredentialsReached ==
  /\ StartupMissing
  /\ pc = "returned"
  /\ providers # {}

\* C7: when PRIVATE_KEY or EXECUTOR_ADDRESS is missing, once startup is over
\* the process has exited with a nonzero status.
StartupFailureExitsNonzero ==
  (StartupMissing /\ pc \notin {"ignition", "run"}) =>
    (proc = "exited" /\ exitCode # NoExit /\ exitCode # 0)

\* a gateway call is settled as rejected by this step
RejectionStep ==
  \E i \in 1..Len(calls') :
    /\ calls'[i].st = "fail"
    /\ i <= Len(calls) => calls[i].st = "pending"

\* C8: a step in which a gateway call of the attempt rejects leaves the
\* process running at the pacing pause of the same network; from that pause
\* the loop only moves on to the next network or to the pause between
\* passes, and from there to the first network of the next pass; the process
\* never exits once the loop is entered.
FailuresContained ==
  /\ [][RejectionStep => (proc' = "running" /\ pc' = "pause" /\ idx' = idx)]_vars
  /\ [][(pc = "pause" /\ pc' # "pause") =>
          \/ (idx < Len(NetOrder) /\ pc' = "loop" /\ idx' = idx + 1)
          \/ (idx = Len(NetOrder) /\ pc' = "passPause")]_vars
  /\ [][(pc = "passPause" /\ pc' # "passPause") => (pc' = "loop" /\ idx' = 1)]_vars
  /\ [][(pc \in LoopPcs) => (pc' \in LoopPcs /\ proc' = "running")]_vars

FailuresContainedReached ==
  /\ pc = "loop" /\ idx = 2 /\ proc = "running"
  /\ outcome["ETHEREUM"] = "broadcast-failed"

\* C9: with fee and config fixed and b1 <= b2, a non-null result for b1
\* implies a non-null result for b2 with tradeAmount(b1) <= tradeAmount(b2).
TradeAmountMonotone ==
  (qPc = "done" /\ qIn.balA <= qIn.balB /\ qOut.resA # NoMetrics) =>
    /\ qOut.resB # NoMetrics
    /\ qOut.resA.tradeAmount <= qOut.resB.tradeAmount

TradeAmountMonotoneReached ==
  /\ qPc = "done"
  /\ qIn.balA < qIn.balB
  /\ qOut.resA # NoMetrics /\ qOut.resB # NoMetrics
  /\ qOut.resA.tradeAmount < qOut.resB.tradeAmount

\* C10: every transaction handed to provider.call or to
\* wallet.sendTransaction has value = premium and amountIn = tradeAmount of
\* the metrics computed in the same attempt, and its recipient argument is
\* PROFIT_RECIPIENT.
TxCarriesMetrics ==
  \A tx \in {simTx, sentTx} \ {NoTx} :
    /\ m # NoMetrics
    /\ m = StrikeMetrics(balanceRead, gasRead, NETWORKS[CurNet])
    /\ tx.value = m.premium
    /\ tx.amountIn = m.tradeAmount
    /\ tx.recipient = "0x458f94e935f829DCAD18Ae0A18CA5C3E223B71DE"

TxCarriesMetricsReached ==
  /\ pc = "awaitSend"
  /\ simTx # NoTx /\ sentTx # NoTx
  /\ sentTx.value = m.premium /\ sentTx.value # sentTx.amountIn

\* 0.01 gwei, the base fee the specification names MIN_BASE_FEE
SpecMinBaseFee == ParseCentiGwei(1)

SpecMax(a, b) == IF a >= b THEN a ELSE b

\* C11 as stated: the max fee of the metrics, and of the transaction built
\* from them, is max(baseFee, MIN_BASE_FEE) x 1.30 + the priority hint for
\* every fee reply, a reported base fee below MIN_BASE_FEE included.
MaxFeeFloorsBaseFee ==
  (m # NoMetrics) =>
    LET expected == ((SpecMax(gasRead, SpecMinBaseFee) * 130) \div 100)
                      + ParseCentiGwei(NETWORKS[CurNet].priority)
    IN /\ m.fee = expected
       /\ \A tx \in {simTx, sentTx} \ {NoTx} : tx.maxFeePerGas = expected

\* C11 (amended): the base fee is the reported gas price when one is reported
\* and is not zero, whatever its size, and 0.01 gwei otherwise.
MaxFeeDefaultsMissingBaseFee ==
  (m # NoMetrics) =>
    LET base == IF gasRead = NullGas \/ gasRead = 0
                THEN SpecMinBaseFee ELSE gasRead
        expected == ((base * 130) \div 100)
                      + ParseCentiGwei(NETWORKS[CurNet].priority)
    IN /\ m.fee = expected
       /\ \A tx \in {simTx, sentTx} \ {NoTx} : tx.maxFeePerGas = expected

\* a transaction was sent with a fee derived from a base fee below 0.01 gwei
MaxFeeBelowMinimumReached ==
  /\ sentTx # NoTx
  /\ gasRead > 0 /\ gasRead < SpecMinBaseFee
  /\ sentTx.maxFeePerGas < ((SpecMinBaseFee * 130) \div 100)
                             + ParseCentiGwei(NETWORKS[CurNet].priority)

AwaitPcs ==
  {"awaitMetrics", "awaitNonce", "awaitPopulate", "awaitCall", "awaitSend"}

\* executeStrike is entered by this step
StrikeStep == pc = "loop" /\ pc' # "loop"

\* C12: in every pass the networks are visited in registry order (when
\* executeStrike is entered for a network, exactly the networks before it in
\* the registry have been visited in this pass); a network with a wallet is
\* attempted exactly once in the pass, and for a network without one no
\* gateway call is made.
RegistryOrderOncePerPass ==
  /\ [][StrikeStep =>
          /\ \A i \in 1..Len(NetOrder) :
               /\ (i < idx) => outcome[NetOrder[i]] # "none"
               /\ (i >= idx) => (outcome[NetOrder[i]] = "none"
                                   /\ attempts[NetOrder[i]] = 0)
          /\ idx' = idx
          /\ IF CurNet \in wallets
             THEN attempts'[CurNet] = 1 /\ pc' = "awaitMetrics"
             ELSE attempts'[CurNet] = 0 /\ calls' = << >> /\ pc' = "pause"]_vars
  /\ [][(pc = "pause" /\ pc' = "loop") => idx' = idx + 1]_vars
  /\ [][(pc = "passPause" /\ pc' = "loop") =>
          /\ idx' = 1
          /\ \A n \in NetNames : attempts[n] = (IF n \in wallets THEN 1 ELSE 0)]_vars
  /\ [](pc \in AwaitPcs => CurNet \in wallets)

\* a pass has reached its third network, the second one having no wallet
RegistryOrderReached ==
  /\ pc = "awaitMetrics" /\ idx = 3
  /\ wallets = NetNames \ {"BASE"}
  /\ outcome["ETHEREUM"] = "broadcast-succeeded"
  /\ outcome["BASE"] = "no-wallet" /\ attempts["BASE"] = 0

\* ------------------------------------------------------------------------
\* Scheduling: timers fire and every awaited gateway call settles
\* ------------------------------------------------------------------------
FairSpec == Spec /\ WF_vars(Next)

\* C13: once the loop is entered it never ends on its own: from every state
\* of the loop, every network with a wallet is attempted again, so each is
\* attempted infinitely often and a new pass always starts.
GovernorRunsForever ==
  /\ \A n \in NetNames :
       (pc \in LoopPcs /\ n \in wallets) ~> (pc = "awaitMetrics" /\ CurNet = n)
  /\ (pc \in LoopPcs) ~> (pc = "passPause")
  /\ (pc = "passPause") ~> (pc = "loop" /\ idx = 1)

\* a pass over four online networks is complete, one attempt having failed
GovernorRunsForeverReached ==
  /\ pc = "passPause" /\ proc = "running"
  /\ wallets = NetNames
  /\ \A n \in NetNames : attempts[n] = 1
  /\ outcome["POLYGON"] = "simulation-failed"

\* ------------------------------------------------------------------------
\* Scheduling with an unresponsive node: the gateway of the first network
\* need not ever settle a call; timers and all other gateways do
\* ------------------------------------------------------------------------
StalledNet == NetOrder[1]

GatewayReply ==
  MetricsReply \/ NonceReply \/ PopulateReply \/ CallReply \/ SendReply

Responsive ==
  \/ Construct
  \/ RunEntry
  \/ CallStrike
  \/ PauseDone
  \/ PassPauseDone
  \/ (CurNet # StalledNet /\ GatewayReply)

StallSpec == Spec /\ WF_vars(Responsive)

\* C14: when a gateway call of one network never returns, every other network
\* with a wallet is still attempted again and again.
StalledNetworkDoesNotBlock ==
  \A n \in NetNames \ {StalledNet} :
    (pc \in LoopPcs /\ n \in wallets) ~> (pc = "awaitMetrics" /\ CurNet = n)

Constructed == pc \notin {"ignition", "off"}

\* C15: a network whose provider could not be constructed is never attempted
\* and no gateway call is ever made for it; the sets of providers and of
\* wallets never change after construction; the networks with a wallet are
\* all attempted in every pass.
OfflineNetworkExcluded ==
  /\ [](Constructed =>
          \A n \in NetNames \ providers :
            /\ n \notin wallets
            /\ attempts[n] = 0
            /\ outcome[n] \in {"none", "no-wallet"}
            /\ (CurNet = n) => (pc \notin AwaitPcs /\ calls = << >>
                                  /\ simTx = NoTx /\ sentTx = NoTx))
  /\ [][Constructed => (providers' = providers /\ wallets' = wallets)]_vars
  /\ [](pc = "passPause" => \A n \in wallets : attempts[n] = 1)

\* a pass is complete in which the second network was offline and the other
\* three were attempted
OfflineNetworkExcludedReached ==
  /\ pc = "passPause"
  /\ providers = NetNames \ {"BASE"}
  /\ outcome["BASE"] = "no-wallet" /\ attempts["BASE"] = 0
  /\ \A n \in NetNames \ {"BASE"} : attempts[n] = 1

\* C16: an attempt whose metrics calculation returned null issues no nonce
\* query, builds no transaction, simulates nothing and broadcasts nothing;
\* it ends at the pacing pause with only the two reads made.
NoEffectWithoutMetrics ==
  /\ (pc \in LoopPcs \ {"awaitMetrics"} /\ m = NoMetrics) =>
       /\ OpsIssued \subseteq {"getBalance", "getFeeData"}
       /\ nonce = NoNonce /\ txData = NoTx
       /\ simTx = NoTx /\ sentTx = NoTx
       /\ pc \in {"loop", "pause", "passPause"}
  /\ (pc = "pause" /\ balanceRead # NoRead /\ m = NoMetrics) =>
       outcome[CurNet] \in {"skipped", "read-failed"}

\* an attempt read a positive balance that does not leave the headroom
NoEffectWithoutMetricsReached ==
  /\ pc = "pause"
  /\ balanceRead > 0 /\ gasRead # Fail
  /\ m = NoMetrics
  /\ outcome[CurNet] = "skipped"
  /\ Len(calls) = 2

Count(op) == Cardinality({i \in 1..Len(calls) : calls[i].op = op})

\* a gateway call is issued by this step
IssueStep ==
  \E i \in 1..Len(calls') :
    calls'[i].st = "pending" /\ (i > Len(calls) \/ pc = "loop")

\* C17: no retry within a pass: an attempt issues at most one simulation and
\* at most one broadcast, a network has at most one attempt per pass, and a
\* gateway call is only issued for a network whose attempt of this pass has
\* not ended, so after a failed simulation or broadcast the next call for
\* that network belongs to the next pass.
NoRetryWithinPass ==
  /\ [](Count("call") <= 1 /\ Count("sendTransaction") <= 1)
  /\ [](\A n \in NetNames : attempts[n] <= 1)
  /\ [][IssueStep => (outcome[CurNet'] = "none" /\ outcome'[CurNet'] = "none")]_vars
  /\ [][(pc = "pause"
          /\ outcome[CurNet] \in {"simulation-failed", "broadcast-failed"}) =>
          (pc' \in {"pause", "passPause"} \/ (pc' = "loop" /\ idx' = idx + 1))]_vars

\* the attempt after one whose broadcast failed is for the next network
NoRetryWithinPassReached ==
  /\ pc = "awaitMetrics" /\ idx = 2
  /\ outcome["ETHEREUM"] = "broadcast-failed"
  /\ attempts["ETHEREUM"] = 1 /\ attempts["BASE"] = 1

\* C18: for every balance that passes the headroom check, premium is at
\* least the reserve of 0.005 and tradeAmount at least 5.0, so the
\* calculation returns metrics: the threshold branch never rejects.
ThresholdNeverRejects ==
  (qPc = "done"
     /\ qIn.balA >= SpecOverhead(qIn.gasPrice, NETWORKS[qIn.net]) + SpecReserve) =>
    /\ qOut.resA # NoMetrics
    /\ qOut.resA.premium >= SpecReserve
    /\ qOut.resA.tradeAmount >= ParseMilliEther(5000)

\* the balance that just passes the headroom check was sized
ThresholdNeverRejectsReached ==
  /\ qPc = "done"
  /\ qIn.balA = SpecOverhead(qIn.gasPrice, NETWORKS[qIn.net]) + SpecReserve
  /\ qOut.resA # NoMetrics
  /\ qOut.resA.premium = SpecReserve

IndexOf(op) == CHOOSE i \in 1..Len(calls) : calls[i].op = op

\* C19: the transaction broadcast is the transaction simulated in the same
\* attempt, field by field, and the broadcast is the gateway call issued
\* right after the simulation: nothing is read again in between.
BroadcastIsSimulated ==
  (sentTx # NoTx) =>
    /\ simTx # NoTx
    /\ sentTx.tokenA = simTx.tokenA
    /\ sentTx.amountIn = simTx.amountIn
    /\ sentTx.value = simTx.value
    /\ sentTx.gasLimit = simTx.gasLimit
    /\ sentTx.maxFeePerGas = simTx.maxFeePerGas
    /\ sentTx.maxPriorityFeePerGas = simTx.maxPriorityFeePerGas
    /\ sentTx.nonce = simTx.nonce
    /\ sentTx = simTx
    /\ IndexOf("sendTransaction") = IndexOf("call") + 1
    /\ \A op \in {"getBalance", "getFeeData", "getNonce", "populateTransaction"} :
         Count(op) = 1 /\ IndexOf(op) < IndexOf("call")

BroadcastIsSimulatedReached ==
  /\ pc = "pause"
  /\ outcome[CurNet] = "broadcast-succeeded"
  /\ sentTx # NoTx /\ sentTx = simTx
  /\ sentTx.nonce = MaxNonce

\* C20: whenever metrics are returned, premium + gasLimit x maxFee + moat is
\* the balance that was read; the value of the built transaction plus its
\* largest gas cost (gasLimit x maxFeePerGas) leaves the moat of the balance.
MetricsExhaustBalance ==
  (m # NoMetrics) =>
    LET moat == ParseMilliEther(NETWORKS[CurNet].moat)
    IN /\ m.premium + ((GasLimit \div GasPerUnit) * m.fee) + moat = balanceRead
       /\ \A tx \in {txData, simTx, sentTx} \ {NoTx} :
            /\ tx.value + ((tx.gasLimit \div GasPerUnit) * tx.maxFeePerGas)
                 <= balanceRead - moat
            /\ tx.value >= 0

MetricsExhaustBalanceReached ==
  /\ pc = "awaitSend"
  /\ sentTx # NoTx
  /\ sentTx.value + ((sentTx.gasLimit \div GasPerUnit) * sentTx.maxFeePerGas)
       = balanceRead - ParseMilliEther(NETWORKS[CurNet].moat)
  /\ gasRead = 1

====
